---- MODULE Spec2Model ----
(***************************************************************************)
(* Model of libreddit's src/main.rs: start-up argument parsing, and the    *)
(* actix-web application it builds (HTTPS-redirect wrap_fn, NormalizePath, *)
(* DefaultHeaders, default service and the route table).                   *)
(*                                                                         *)
(* Strings the program inspects character by character (arguments, paths,  *)
(* URLs) are sequences of one-character strings.                           *)
(***************************************************************************)
EXTENDS Integers, Sequences, FiniteSets, TLC

VARIABLES
    cmdline,      \* std::env::args(): the argument vector, argv[0] included
    argi,         \* index of the next argument the `for arg in ...` loop visits
    address,      \* `let mut address`
    force_https,  \* `let mut force_https`
    pc,           \* position of main(): "args", "serving", "panicked" (line 57)
                  \* or "bind_failed" (the panic of line 157)
    reqs          \* per in-flight task: the request and how far the wrap chain got

vars == <<cmdline, argi, address, force_https, pc, reqs>>

(***************************************************************************)
(* Bounds                                                                  *)
(***************************************************************************)
MaxArgs == 2        \* arguments after argv[0]
MaxSlashRun == 2    \* longest run of '/' in a raw request path
MaxInFlight == 2    \* concurrently processed requests

(***************************************************************************)
(* String helpers                                                          *)
(***************************************************************************)
IsPrefixAt(s, pos, p) ==
    /\ pos + Len(p) - 1 <= Len(s)
    /\ \A k \in 1..Len(p) : s[pos + k - 1] = p[k]

Min(S) == CHOOSE x \in S : \A y \in S : x <= y
Max(S) == CHOOSE x \in S : \A y \in S : x >= y

\* str::split(c): the pieces between the occurrences of c (always >= 1 piece)
RECURSIVE Split(_, _)
Split(s, c) ==
    LET hits == {k \in 1..Len(s) : s[k] = c}
    IN  IF hits = {} THEN <<s>>
        ELSE LET k == Min(hits)
             IN  <<SubSeq(s, 1, k - 1)>> \o Split(SubSeq(s, k + 1, Len(s)), c)

(***************************************************************************)
(* Start-up: main(), lines 52-61                                           *)
(***************************************************************************)
S_default_address == <<"0", ".", "0", ".", "0", ".", "0", ":", "8", "0", "8", "0">>
S_address == <<"-", "-", "a", "d", "d", "r", "e", "s", "s">>
S_a == <<"-", "a">>
S_redirect_https == <<"-", "-", "r", "e", "d", "i", "r", "e", "c", "t", "-", "h", "t", "t", "p", "s">>
S_r_flag == <<"-", "r">>

\* arg.split('=').collect::<Vec<&str>>()[0]
ArgName(arg) == Split(arg, "=")[1]

IsAddressFlag(arg) == ArgName(arg) \in {S_address, S_a}
IsRedirectFlag(arg) == ArgName(arg) \in {S_redirect_https, S_r_flag}

\* arg.split('=').collect::<Vec<&str>>()[1] is an out-of-bounds index
\* (a panic) when the argument holds no '='
AddressIndexPanics(arg) == Len(Split(arg, "=")) < 2
AddressValue(arg) == Split(arg, "=")[2]

\* one iteration of `for arg in std::env::args()`
ParseArg ==
    /\ pc = "args"
    /\ argi <= Len(cmdline)
    /\ LET arg == cmdline[argi]
       IN  IF IsAddressFlag(arg)
           THEN IF AddressIndexPanics(arg)
                THEN /\ pc' = "panicked"
                     /\ UNCHANGED <<address, force_https, argi>>
                ELSE /\ address' = AddressValue(arg)
                     /\ argi' = argi + 1
                     /\ UNCHANGED <<force_https, pc>>
           ELSE IF IsRedirectFlag(arg)
           THEN /\ force_https' = TRUE
                /\ argi' = argi + 1
                /\ UNCHANGED <<address, pc>>
           ELSE /\ argi' = argi + 1
                /\ UNCHANGED <<address, force_https, pc>>
    /\ UNCHANGED <<cmdline, reqs>>

Digits == {"0", "1", "2", "3", "4", "5", "6", "7", "8", "9"}
DigitValue(c) ==
    CASE c = "0" -> 0 [] c = "1" -> 1 [] c = "2" -> 2 [] c = "3" -> 3 [] c = "4" -> 4
      [] c = "5" -> 5 [] c = "6" -> 6 [] c = "7" -> 7 [] c = "8" -> 8 [] c = "9" -> 9

RECURSIVE ToNumber(_)
ToNumber(ds) ==
    IF ds = <<>> THEN 0 ELSE 10 * ToNumber(SubSeq(ds, 1, Len(ds) - 1)) + DigitValue(ds[Len(ds)])

MaxPort == 65535
MaxPortDigits == 5

\* the text without its leading zeros
RECURSIVE StripZeros(_)
StripZeros(ds) ==
    IF ds # <<>> /\ ds[1] = "0" THEN StripZeros(SubSeq(ds, 2, Len(ds))) ELSE ds

\* str::parse::<u16>: an optional leading '+', then one or more decimal
\* digits (leading zeros allowed) whose value fits a u16
ParsesAsU16(text) ==
    LET ds == IF text # <<>> /\ text[1] = "+" THEN SubSeq(text, 2, Len(text)) ELSE text
    IN  /\ ds # <<>>
        /\ \A k \in 1..Len(ds) : ds[k] \in Digits
        /\ Len(StripZeros(ds)) <= MaxPortDigits
        /\ ToNumber(StripZeros(ds)) <= MaxPort

\* <str as ToSocketAddrs>: the text is "<host>:<port>" with the port, the
\* part after the last ':', a u16; anything else is an invalid socket address
SocketAddrSyntax(addr) ==
    LET colons == {k \in 1..Len(addr) : addr[k] = ":"}
    IN  /\ colons # {}
        /\ ParsesAsU16(SubSeq(addr, Max(colons) + 1, Len(addr)))

\* the loop is over: HttpServer::new(move || ...).bind(&address) succeeds
\* and the server runs
StartServer ==
    /\ pc = "args"
    /\ argi > Len(cmdline)
    /\ SocketAddrSyntax(address)
    /\ pc' = "serving"
    /\ UNCHANGED <<cmdline, argi, address, force_https, reqs>>

\* .bind(&address) fails, line 157: the address is no socket address, or
\* the host does not resolve, or the port cannot be bound; main panics
BindFails ==
    /\ pc = "args"
    /\ argi > Len(cmdline)
    /\ pc' = "bind_failed"
    /\ UNCHANGED <<cmdline, argi, address, force_https, reqs>>

(***************************************************************************)
(* Requests                                                                *)
(***************************************************************************)
\* http::Uri of a request in origin form: a path and an optional query
\* (query = <<>> stands for "no query")
Uri(path, query) == [path |-> path, query |-> query]

S_qmark == <<"?">>
\* req.uri().to_string(): the path, then '?' and the query when there is one
UriToString(uri) ==
    IF uri.query = <<>> THEN uri.path ELSE uri.path \o S_qmark \o uri.query

(***************************************************************************)
(* middleware::NormalizePath::default(), line 84                           *)
(***************************************************************************)
\* Regex "//+" replace_all "/": every run of '/' becomes one '/'
RECURSIVE MergeSlashes(_)
MergeSlashes(p) ==
    IF Len(p) = 0 THEN <<>>
    ELSE IF Len(p) >= 2 /\ p[1] = "/" /\ p[2] = "/" THEN MergeSlashes(Tail(p))
    ELSE <<p[1]>> \o MergeSlashes(Tail(p))

\* a faulty normalizer: merges the slashes but appends none
MergeOnlyPath(p) == MergeSlashes(p)

\* original_path + "/", then the runs merged
NormalizedPath(p) == MergeSlashes(p \o <<"/">>)

\* the middleware rewrites the path of the URI and keeps the query
NormalizeUri(uri) == Uri(NormalizedPath(uri.path), uri.query)

(***************************************************************************)
(* Resource patterns (actix-router ResourceDef), as the route table of     *)
(* lines 99-154 writes them.  A pattern is a sequence of elements:         *)
(*   Lit(s)            literal text                                        *)
(*   Seg(name)         {name}        = [^/]+                               *)
(*   Alt(name, alts)   {name:a|b|c}  = ordered alternation                 *)
(*   Dot(name, lo, hi) {name:.{lo,hi}}, {name:.*} with hi = Unbounded      *)
(***************************************************************************)
Unbounded == -1
Lit(s) == [t |-> "lit", s |-> s]
Seg(name) == [t |-> "rep", name |-> name, cls |-> "noslash", lo |-> 1, hi |-> Unbounded]
Dot(name, lo, hi) == [t |-> "rep", name |-> name, cls |-> "dot", lo |-> lo, hi |-> hi]
Alt(name, alts) == [t |-> "alt", name |-> name, alts |-> alts]

\* how many characters from pos on belong to the class
RECURSIVE Run(_, _, _)
Run(s, pos, cls) ==
    IF pos > Len(s) THEN 0
    ELSE IF cls = "noslash" /\ s[pos] = "/" THEN 0
    ELSE 1 + Run(s, pos + 1, cls)

\* the lengths a variable element may take at pos, in the order the regex
\* engine prefers them (greedy repetition: longest first; alternation: in
\* the order written)
Candidates(e, s, pos) ==
    IF e.t = "alt"
    THEN LET Hit(k) == IsPrefixAt(s, pos, e.alts[k])
             idx == SelectSeq([k \in 1..Len(e.alts) |-> k], Hit)
         IN  [j \in 1..Len(idx) |-> Len(e.alts[idx[j]])]
    ELSE LET run == Run(s, pos, e.cls)
             top == IF e.hi = Unbounded \/ run < e.hi THEN run ELSE e.hi
         IN  IF top < e.lo THEN <<>>
             ELSE [j \in 1..(top - e.lo + 1) |-> top - j + 1]

NoMatch == [ok |-> FALSE, end |-> 0, caps |-> <<>>]

\* Regex::captures of the pattern's regex on s from pos; `full` is the
\* trailing '$' a resource pattern has and a scope (prefix) pattern lacks.
\* end is the position after the match, caps the <<name, value>> pairs.
RECURSIVE MatchFrom(_, _, _, _, _)
RECURSIVE TryCands(_, _, _, _, _, _, _)
MatchFrom(pat, k, s, pos, full) ==
    IF k > Len(pat)
    THEN IF full /\ pos # Len(s) + 1 THEN NoMatch
         ELSE [ok |-> TRUE, end |-> pos, caps |-> <<>>]
    ELSE IF pat[k].t = "lit"
    THEN IF IsPrefixAt(s, pos, pat[k].s)
         THEN MatchFrom(pat, k + 1, s, pos + Len(pat[k].s), full)
         ELSE NoMatch
    ELSE TryCands(pat, k, s, pos, full, Candidates(pat[k], s, pos), 1)

TryCands(pat, k, s, pos, full, cands, j) ==
    IF j > Len(cands) THEN NoMatch
    ELSE LET n == cands[j]
             rest == MatchFrom(pat, k + 1, s, pos + n, full)
         IN  IF rest.ok
             THEN [ok |-> TRUE, end |-> rest.end,
                   caps |-> <<<<pat[k].name, SubSeq(s, pos, pos + n - 1)>>>> \o rest.caps]
             ELSE TryCands(pat, k, s, pos, full, cands, j + 1)

IsStatic(pat) == \A k \in 1..Len(pat) : pat[k].t = "lit"

\* a resource (web::resource / .route(path, ...)) matches the whole of the
\* path that is left
MatchResource(pat, s, pos) == MatchFrom(pat, 1, s, pos, TRUE)

\* a scope matches a prefix of the path that is left.  A scope without
\* variables must end at a segment boundary; one with variables is the
\* unanchored regex.
MatchPrefix(pat, s, pos) ==
    IF IsStatic(pat)
    THEN LET p == pat[1].s
             rest == SubSeq(s, pos, Len(s))
         IN  IF p = rest THEN [ok |-> TRUE, end |-> pos + Len(p), caps |-> <<>>]
             ELSE IF /\ IsPrefixAt(rest, 1, p)
                     /\ (p[Len(p)] = "/" \/ rest[Len(p) + 1] = "/")
             THEN [ok |-> TRUE,
                   end |-> pos + (IF p[Len(p)] = "/" THEN Len(p) - 1 ELSE Len(p)),
                   caps |-> <<>>]
             ELSE NoMatch
    ELSE MatchFrom(pat, 1, s, pos, FALSE)

(***************************************************************************)
(* The route table, lines 97-154                                           *)
(***************************************************************************)
S_slash == <<"/">>
S_style == <<"/", "s", "t", "y", "l", "e", ".", "c", "s", "s", "/">>
S_favicon == <<"/", "f", "a", "v", "i", "c", "o", "n", ".", "i", "c", "o", "/">>
S_robots == <<"/", "r", "o", "b", "o", "t", "s", ".", "t", "x", "t", "/">>
S_manifest == <<"/", "m", "a", "n", "i", "f", "e", "s", "t", ".", "j", "s", "o", "n", "/">>
S_logo == <<"/", "l", "o", "g", "o", ".", "p", "n", "g", "/">>
S_touch == <<"/", "t", "o", "u", "c", "h", "-", "i", "c", "o", "n", "-", "i", "p", "h", "o", "n", "e", ".", "p", "n", "g", "/">>
S_proxy == <<"/", "p", "r", "o", "x", "y", "/">>
S_settings == <<"/", "s", "e", "t", "t", "i", "n", "g", "s", "/">>
S_r == <<"/", "r", "/">>
S_comments == <<"/", "c", "o", "m", "m", "e", "n", "t", "s", "/">>
S_search == <<"/", "s", "e", "a", "r", "c", "h", "/">>
S_wiki == <<"/", "w", "i", "k", "i">>
A_user == <<"u", "s", "e", "r">>
A_u == <<"u">>
A_hot == <<"h", "o", "t">>
A_new == <<"n", "e", "w">>
A_top == <<"t", "o", "p">>
A_rising == <<"r", "i", "s", "i", "n", "g">>
A_controversial == <<"c", "o", "n", "t", "r", "o", "v", "e", "r", "s", "i", "a", "l">>
A_best == <<"b", "e", "s", "t">>
A_subscribe == <<"s", "u", "b", "s", "c", "r", "i", "b", "e">>
A_unsubscribe == <<"u", "n", "s", "u", "b", "s", "c", "r", "i", "b", "e">>
A_wiki == <<"w", "i", "k", "i">>
A_w == <<"w">>

\* web::get().to(handler) / web::post().to(handler): a route with a method
\* guard; AnyMethod is a route left without guards
AnyMethod == "*"
Route(method, handler, line) == [method |-> method, handler |-> handler, line |-> line]

\* web::resource(path).route(..).route(..): the guards stay on the routes
Resource(pat, routes) == [kind |-> "resource", pat |-> pat, guards |-> <<>>, routes |-> routes]

\* App::route / Scope::route (path, route):
\* Resource::new(path).add_guards(route.take_guards()).route(route), so the
\* route's method guard becomes a guard of the resource
RouteResource(pat, route) ==
    [kind |-> "resource", pat |-> pat, guards |-> <<route.method>>,
     routes |-> <<[route EXCEPT !.method = AnyMethod]>>]
Scope(pat, services) == [kind |-> "scope", pat |-> pat, services |-> services]

\* a faulty sort route: any segment is taken for a sort order
AnySortPattern == <<Lit(S_slash), Seg("sort"), Lit(S_slash)>>

\* "/{sort:hot|new|top|rising|controversial}/", line 124
SubSortPattern ==
    <<Lit(S_slash), Alt("sort", <<A_hot, A_new, A_top, A_rising, A_controversial>>), Lit(S_slash)>>

\* web::scope("/comments/{id}/{title}"), lines 111-113 and 129-131
CommentsScope(line) ==
    Scope(<<Lit(S_comments), Seg("id"), Lit(S_slash), Seg("title")>>,
          << RouteResource(<<Lit(S_slash)>>, Route("GET", "post::item", line)),
             RouteResource(<<Lit(S_slash), Seg("comment_id"), Lit(S_slash)>>,
                      Route("GET", "post::item", line + 1)) >>)

\* the services of App::new(), in the order they are registered
AppServices ==
    << RouteResource(<<Lit(S_style)>>, Route("GET", "style", 99)),
       RouteResource(<<Lit(S_favicon)>>, Route("GET", "favicon", 100)),
       RouteResource(<<Lit(S_robots)>>, Route("GET", "robots", 101)),
       RouteResource(<<Lit(S_manifest)>>, Route("GET", "manifest", 102)),
       RouteResource(<<Lit(S_logo)>>, Route("GET", "pwa_logo", 103)),
       RouteResource(<<Lit(S_touch)>>, Route("GET", "iphone_logo", 104)),
       RouteResource(<<Lit(S_proxy), Dot("url", 0, Unbounded), Lit(S_slash)>>,
                Route("GET", "proxy::handler", 106)),
       Scope(<<Lit(S_slash), Alt("scope", <<A_user, A_u>>)>>,
             << Scope(<<Lit(S_slash), Seg("username")>>,
                      << RouteResource(<<Lit(S_slash)>>, Route("GET", "user::profile", 110)),
                         CommentsScope(112) >>) >>),
       Resource(<<Lit(S_settings)>>,
                <<Route("GET", "settings::get", 118), Route("POST", "settings::set", 118)>>),
       Scope(<<Lit(S_r), Seg("sub")>>,
             << RouteResource(<<Lit(S_slash)>>, Route("GET", "subreddit::page", 123)),
                RouteResource(SubSortPattern, Route("GET", "subreddit::page", 124)),
                RouteResource(<<Lit(S_slash), Alt("action", <<A_subscribe, A_unsubscribe>>), Lit(S_slash)>>,
                         Route("POST", "subreddit::subscriptions", 126)),
                CommentsScope(130),
                RouteResource(<<Lit(S_search)>>, Route("GET", "search::find", 134)),
                Scope(<<Lit(S_slash), Alt("scope", <<A_wiki, A_w>>)>>,
                      << RouteResource(<<Lit(S_slash)>>, Route("GET", "subreddit::wiki", 138)),
                         RouteResource(<<Lit(S_slash), Seg("page"), Lit(S_slash)>>,
                                  Route("GET", "subreddit::wiki", 139)) >>) >>),
       RouteResource(<<Lit(S_slash)>>, Route("GET", "subreddit::page", 143)),
       RouteResource(<<Lit(S_slash),
                  Alt("sort", <<A_best, A_hot, A_new, A_top, A_rising, A_controversial>>),
                  Lit(S_slash)>>,
                Route("GET", "subreddit::page", 144)),
       Scope(<<Lit(S_wiki)>>,
             << RouteResource(<<Lit(S_slash)>>, Route("GET", "subreddit::wiki", 148)),
                RouteResource(<<Lit(S_slash), Seg("page"), Lit(S_slash)>>,
                         Route("GET", "subreddit::wiki", 149)) >>),
       RouteResource(<<Lit(S_search)>>, Route("GET", "search::find", 152)),
       RouteResource(<<Lit(S_slash), Dot("id", 5, 6), Lit(S_slash)>>,
                Route("GET", "post::item", 154)) >>

\* what the router ends up calling: a handler (named with the line that
\* registers its route) and the captures of the path
Invocation(handler, line, caps) == [handler |-> handler, line |-> line, caps |-> caps]

\* .default_service(web::get().to(|| utils::error("Nothing here"))), line 97.
\* A Route used as a service runs its handler without checking its guards,
\* so the default service answers every method.
DefaultService(caps) == Invocation("utils::error", 97, caps)

\* a resource that was chosen but none of whose routes accepts the method
\* (only web::resource("/settings/") can be): the resource's own fallback
\* answers (405), not the App's default service
MethodNotAllowed(caps) == Invocation("MethodNotAllowed", 0, caps)

\* a faulty router: the last registered match wins
LastRegistered(M) == Max(M)

\* the router walks its services (and a resource its routes) in
\* registration order and takes the first that matches
FirstRegistered(M) == Min(M)

ResourceCall(routes, method, caps) ==
    LET R == {j \in 1..Len(routes) : routes[j].method \in {method, AnyMethod}}
    IN  IF R = {} THEN MethodNotAllowed(caps)
        ELSE LET rt == routes[FirstRegistered(R)]
             IN  Invocation(rt.handler, rt.line, caps)

\* the guards of a service accept the request (a scope has none here)
GuardsAccept(sv, method) ==
    sv.kind = "scope" \/ \A k \in 1..Len(sv.guards) : sv.guards[k] = method

\* ResourceDef::match_path_checked: the pattern must match and the guards
\* accept; a service that fails either is passed over, captures and all
MatchService(sv, method, s, pos) ==
    IF ~GuardsAccept(sv, method) THEN NoMatch
    ELSE IF sv.kind = "scope" THEN MatchPrefix(sv.pat, s, pos)
    ELSE MatchResource(sv.pat, s, pos)

\* Router::recognize_mut_checked and the calls below it: the first service
\* whose pattern matches the rest of the path and whose guards accept the
\* request is taken; a scope then routes
\* the rest among its own services and falls back to the default service,
\* never to a later service of its parent.
RECURSIVE Recognize(_, _, _, _, _)
Recognize(services, method, s, pos, caps) ==
    LET M == {k \in 1..Len(services) : MatchService(services[k], method, s, pos).ok}
    IN  IF M = {} THEN DefaultService(caps)
        ELSE LET sv == services[FirstRegistered(M)]
                 m == MatchService(sv, method, s, pos)
             IN  IF sv.kind = "scope"
                 THEN Recognize(sv.services, method, s, m.end, caps \o m.caps)
                 ELSE ResourceCall(sv.routes, method, caps \o m.caps)

\* the App service on a request
Dispatch(method, path) == Recognize(AppServices, method, path, 1, <<>>)

\* the registered (method, full pattern, handler) triples, scopes expanded,
\* in registration order
RECURSIVE Flatten(_, _)
Flatten(services, prefix) ==
    IF services = <<>> THEN <<>>
    ELSE LET sv == Head(services)
             here == IF sv.kind = "scope"
                     THEN Flatten(sv.services, prefix \o sv.pat)
                     ELSE [j \in 1..Len(sv.routes) |->
                             [method |-> IF sv.guards # <<>> THEN sv.guards[1]
                                         ELSE sv.routes[j].method,
                              pat |-> prefix \o sv.pat,
                              handler |-> sv.routes[j].handler,
                              line |-> sv.routes[j].line]]
         IN  here \o Flatten(Tail(services), prefix)

FlatRoutes == Flatten(AppServices, <<>>)

(***************************************************************************)
(* Responses                                                               *)
(***************************************************************************)
Absent == "<absent>"

SecurityHeaderNames ==
    {"Referrer-Policy", "X-Content-Type-Options", "X-Frame-Options", "Content-Security-Policy"}

\* the header names the model tracks besides Location, which is kept apart
\* because its value is built character by character
HeaderNames == SecurityHeaderNames \cup {"Content-Type", "Cache-Control"}

NoHeaders == [h \in HeaderNames |-> Absent]

\* by: which code built the response ("handler", "resource" or "wrap_fn")
Response(status, headers, location, body, by) ==
    [status |-> status, headers |-> headers, location |-> location, body |-> body, by |-> by]

NoResponse == Response(0, NoHeaders, <<>>, "", "none")

\* the headers of middleware::DefaultHeaders::new(), lines 87-94
SecurityHeaders ==
    [h \in SecurityHeaderNames |->
        CASE h = "Referrer-Policy" -> "no-referrer"
          [] h = "X-Content-Type-Options" -> "nosniff"
          [] h = "X-Frame-Options" -> "DENY"
          [] h = "Content-Security-Policy" ->
                "default-src 'none'; manifest-src 'self'; media-src 'self'; style-src 'self' 'unsafe-inline'; base-uri 'none'; img-src 'self' data:; form-action 'self'; frame-ancestors 'none';"]

\* DefaultHeaders on the response: each of its headers is inserted unless
\* the response already contains a header of that name
DefaultHeadersApply(res) ==
    [res EXCEPT !.headers =
        [h \in HeaderNames |->
            IF h \in SecurityHeaderNames /\ res.headers[h] = Absent
            THEN SecurityHeaders[h] ELSE res.headers[h]]]

StaticHandlers == {"style", "manifest", "pwa_logo", "iphone_logo", "robots", "favicon"}

S_cache == "public, max-age=1209600, s-maxage=86400"

\* style, manifest, pwa_logo, iphone_logo, robots, favicon: lines 18-48
StaticResponse(handler) ==
    LET ct == CASE handler = "style" -> "text/css"
                [] handler = "manifest" -> "application/json"
                [] handler = "pwa_logo" -> "image/png"
                [] handler = "iphone_logo" -> "image/png"
                [] handler = "favicon" -> "image/x-icon"
                [] OTHER -> Absent
        cc == IF handler \in {"robots", "favicon"} THEN S_cache ELSE Absent
    IN  Response(200, [NoHeaders EXCEPT !["Content-Type"] = ct, !["Cache-Control"] = cc],
                 <<>>, handler, "handler")

\* utils::error("Nothing here"): the generic error page
ErrorResponse == Response(404, [NoHeaders EXCEPT !["Content-Type"] = "text/html"],
                          <<>>, "Nothing here", "handler")

\* Resource's fallback when no route of it accepts the method
MethodNotAllowedResponse == Response(405, NoHeaders, <<>>, "", "resource")

\* the handlers of the other modules (post, proxy, search, settings,
\* subreddit, user) are opaque (spec 1: "opaque handlers invoked by the
\* router"): each answers with a page of its own, carrying the headers it
\* set itself (own)
ExternalResponse(handler, own) == Response(200, own, <<>>, handler, "handler")

\* what the inner service answers once the router has chosen
HandlerResponse(inv, own) ==
    IF inv.handler \in StaticHandlers THEN StaticResponse(inv.handler)
    ELSE IF inv.handler = "utils::error" THEN ErrorResponse
    ELSE IF inv.handler = "MethodNotAllowed" THEN MethodNotAllowedResponse
    ELSE ExternalResponse(inv.handler, own)

\* HttpResponse::Found().header("Location", https_url).finish(), line 76
RedirectResponse(https_url) == Response(302, NoHeaders, https_url, "", "wrap_fn")

(***************************************************************************)
(* The wrap chain around the App, lines 66-97.  The wrap registered last   *)
(* is the outermost: DefaultHeaders, then NormalizePath, then the wrap_fn, *)
(* then the router.                                                        *)
(***************************************************************************)
Slots == 1..MaxInFlight

Idle == [stage |-> "idle"]

NotInvoked == Invocation("none", 0, <<>>)

\* a request as it arrives: method, resolved scheme and host of
\* connection_info(), the URI, and (for the opaque handlers) the headers the
\* handler that will serve it sets itself
NewRequest(method, scheme, host, raw, own) ==
    [stage |-> "received", method |-> method, scheme |-> scheme, host |-> host,
     raw |-> raw, own |-> own,
     uri |-> raw, secure |-> FALSE, https_url |-> <<>>,
     invoked |-> NotInvoked, routed |-> <<>>,
     inner |-> NoResponse, mapped |-> NoResponse, out |-> NoResponse,
     trace |-> <<>>]

InFlight(i) == reqs[i].stage \notin {"idle", "done"}

\* NormalizePath::call: the URI is rewritten, then the inner service called
NormalizePathCall(i) ==
    /\ pc = "serving"
    /\ reqs[i].stage = "received"
    /\ reqs' = [reqs EXCEPT ![i] =
            [@ EXCEPT !.uri = NormalizeUri(reqs[i].uri),
                      !.stage = "normalized",
                      !.trace = Append(@, "NormalizePath")]]
    /\ UNCHANGED <<cmdline, argi, address, force_https, pc>>

S_https_prefix == <<"h", "t", "t", "p", "s", ":", "/", "/">>

\* format!("https://{}{}", req.connection_info().host(), req.uri().to_string())
HttpsUrl(r) == S_https_prefix \o r.host \o UriToString(r.uri)

\* a faulty closure: it keeps redirecting enabled only while the requests
\* it sees are insecure, writing the flag it shares with every other task
WrapFnCallSharedFlag(i) ==
    /\ pc = "serving"
    /\ reqs[i].stage = "normalized"
    /\ reqs' = [reqs EXCEPT ![i] =
            [@ EXCEPT !.secure = (reqs[i].scheme = "https"),
                      !.https_url = HttpsUrl(reqs[i]),
                      !.stage = "checked",
                      !.trace = Append(@, "SchemeCheck")]]
    /\ force_https' = (force_https /\ reqs[i].scheme # "https")
    /\ UNCHANGED <<cmdline, argi, address, pc>>

\* wrap_fn, lines 70-71: what the closure computes before srv.call(req)
WrapFnCall(i) ==
    /\ pc = "serving"
    /\ reqs[i].stage = "normalized"
    /\ reqs' = [reqs EXCEPT ![i] =
            [@ EXCEPT !.secure = (reqs[i].scheme = "https"),
                      !.https_url = HttpsUrl(reqs[i]),
                      !.stage = "checked",
                      !.trace = Append(@, "SchemeCheck")]]
    /\ UNCHANGED <<cmdline, argi, address, force_https, pc>>

\* srv.call(req), line 72: the router chooses and the handler (or default
\* service) is invoked; its future has not answered yet
SrvCall(i) ==
    /\ pc = "serving"
    /\ reqs[i].stage = "checked"
    /\ LET r == reqs[i]
           inv == Dispatch(r.method, r.uri.path)
       IN  reqs' = [reqs EXCEPT ![i] =
                [@ EXCEPT !.invoked = inv,
                          !.routed = r.uri.path,
                          !.stage = "invoked",
                          !.trace = Append(@, "Route")]]
    /\ UNCHANGED <<cmdline, argi, address, force_https, pc>>

\* the handler's future completes (after its upstream fetches, if any) and
\* the inner service's result reaches the .map closure
HandlerReturn(i) ==
    /\ pc = "serving"
    /\ reqs[i].stage = "invoked"
    /\ reqs' = [reqs EXCEPT ![i] =
            [@ EXCEPT !.inner = HandlerResponse(reqs[i].invoked, reqs[i].own),
                      !.stage = "served",
                      !.trace = Append(@, "Handler")]]
    /\ UNCHANGED <<cmdline, argi, address, force_https, pc>>

\* a faulty condition: every insecure request is redirected
RedirectWhenInsecure(force, secure) == ~secure

\* `if force_https && !secure`, line 73
ShouldRedirect(force, secure) == force /\ ~secure

\* the .map closure, lines 72-81: runs on the inner service's result
WrapFnMap(i) ==
    /\ pc = "serving"
    /\ reqs[i].stage = "served"
    /\ LET r == reqs[i]
       IN  reqs' = [reqs EXCEPT ![i] =
                [@ EXCEPT !.mapped = IF ShouldRedirect(force_https, r.secure)
                                     THEN RedirectResponse(r.https_url)
                                     ELSE r.inner,
                          !.stage = "mapped",
                          !.trace = Append(@, "SchemeMap")]]
    /\ UNCHANGED <<cmdline, argi, address, force_https, pc>>

\* DefaultHeaders, lines 86-95: acts on the response on its way out
DefaultHeadersMap(i) ==
    /\ pc = "serving"
    /\ reqs[i].stage = "mapped"
    /\ reqs' = [reqs EXCEPT ![i] =
            [@ EXCEPT !.out = DefaultHeadersApply(reqs[i].mapped),
                      !.stage = "done",
                      !.trace = Append(@, "DefaultHeaders")]]
    /\ UNCHANGED <<cmdline, argi, address, force_https, pc>>

\* the connection closes before the response is complete: the task is
\* dropped, and nothing of it remains
Abandon(i) ==
    /\ pc = "serving"
    /\ InFlight(i)
    /\ reqs' = [reqs EXCEPT ![i] = Idle]
    /\ UNCHANGED <<cmdline, argi, address, force_https, pc>>

\* the whole chain as one function of the request and the flag: the
\* response a request gets when nothing else is going on
Handle(r, force) ==
    LET uri == NormalizeUri(r.raw)
        seen == [r EXCEPT !.uri = uri]
        inner == HandlerResponse(Dispatch(r.method, uri.path), r.own)
        mapped == IF ShouldRedirect(force, r.scheme = "https")
                  THEN RedirectResponse(HttpsUrl(seen))
                  ELSE inner
    IN  DefaultHeadersApply(mapped)

(***************************************************************************)
(* Inputs: the requests and command lines the model is run on              *)
(***************************************************************************)
W_a == <<"a">>
W_ab == <<"a", "b">>
W_abc == <<"a", "b", "c">>
W_abcd == <<"a", "b", "c", "d">>
W_abcde == <<"a", "b", "c", "d", "e">>
W_abcdef == <<"a", "b", "c", "d", "e", "f">>
W_abcdefg == <<"a", "b", "c", "d", "e", "f", "g">>
W_aww == <<"a", "w", "w">>
W_b == <<"b">>
W_c == <<"c">>
W_c1 == <<"c", "1">>
W_comments == <<"c", "o", "m", "m", "e", "n", "t", "s">>
W_favicon_ico == <<"f", "a", "v", "i", "c", "o", "n", ".", "i", "c", "o">>
W_invalidsort == <<"i", "n", "v", "a", "l", "i", "d", "s", "o", "r", "t">>
W_logo_png == <<"l", "o", "g", "o", ".", "p", "n", "g">>
W_manifest_json == <<"m", "a", "n", "i", "f", "e", "s", "t", ".", "j", "s", "o", "n">>
W_page == <<"p", "a", "g", "e">>
W_proxy == <<"p", "r", "o", "x", "y">>
W_r == <<"r">>
W_robots_txt == <<"r", "o", "b", "o", "t", "s", ".", "t", "x", "t">>
W_search == <<"s", "e", "a", "r", "c", "h">>
W_settings == <<"s", "e", "t", "t", "i", "n", "g", "s">>
W_spez == <<"s", "p", "e", "z">>
W_style_css == <<"s", "t", "y", "l", "e", ".", "c", "s", "s">>
W_title == <<"t", "i", "t", "l", "e">>
W_touch_icon_iphone_png == <<"t", "o", "u", "c", "h", "-", "i", "c", "o", "n", "-", "i", "p", "h", "o", "n", "e", ".", "p", "n", "g">>
W_unknown == <<"u", "n", "k", "n", "o", "w", "n">>
W_whatever == <<"w", "h", "a", "t", "e", "v", "e", "r">>
W_wikis == <<"w", "i", "k", "i", "s">>
W_x == <<"x">>

\* path segments of the requests; the raw path puts runs of '/' between and
\* after them
TestPaths ==
    { <<>>,
      <<W_style_css>>,
      <<W_favicon_ico>>,
      <<W_robots_txt>>,
      <<W_manifest_json>>,
      <<W_logo_png>>,
      <<W_touch_icon_iphone_png>>,
      <<W_proxy>>,
      <<W_proxy, W_abc>>,
      <<W_proxy, W_a, W_b>>,
      <<A_user, W_spez>>,
      <<A_u, W_spez>>,
      <<A_u, W_spez, W_comments, W_abcde, W_title>>,
      <<A_u, W_spez, W_comments, W_abcde, W_title, W_c1>>,
      <<A_user>>,
      <<W_unknown>>,
      <<A_u, W_abc>>,
      <<W_settings>>,
      <<W_r>>,
      <<W_r, W_aww>>,
      <<W_r, W_aww, A_top>>,
      <<W_r, W_aww, A_hot>>,
      <<W_r, W_aww, A_new>>,
      <<W_r, W_aww, A_rising>>,
      <<W_r, W_aww, A_controversial>>,
      <<W_r, W_aww, A_best>>,
      <<W_r, W_aww, W_invalidsort>>,
      <<W_r, W_aww, A_subscribe>>,
      <<W_r, W_aww, A_unsubscribe>>,
      <<W_r, W_aww, W_comments>>,
      <<W_r, W_aww, W_comments, W_abcde, W_title>>,
      <<W_r, W_aww, W_comments, W_abcde, W_title, W_c1>>,
      <<W_r, W_aww, W_search>>,
      <<W_r, W_aww, A_wiki>>,
      <<W_r, W_aww, A_w>>,
      <<W_r, W_aww, A_wiki, W_page>>,
      <<W_r, W_aww, W_whatever>>,
      <<W_r, W_ab, W_x>>,
      <<A_best>>,
      <<A_hot>>,
      <<A_new>>,
      <<A_top>>,
      <<A_rising>>,
      <<A_controversial>>,
      <<A_wiki>>,
      <<A_wiki, W_page>>,
      <<A_wiki, W_a, W_b>>,
      <<A_wiki, W_a>>,
      <<W_r, W_a, A_w>>,
      <<W_wikis>>,
      <<W_search>>,
      <<A_subscribe>>,
      <<W_abcd>>,
      <<W_abcde>>,
      <<W_abcdef>>,
      <<W_abcdefg>>,
      <<W_a, W_b, W_c>> }

Slashes(n) == [k \in 1..n |-> "/"]

RECURSIVE JoinSegs(_, _)
JoinSegs(segs, sep) ==
    IF segs = <<>> THEN <<>>
    ELSE Slashes(sep) \o Head(segs) \o JoinSegs(Tail(segs), sep)

\* sep slashes before each segment, trail slashes at the end ("/" at least)
RawPath(segs, sep, trail) ==
    IF segs = <<>> THEN Slashes(sep) \o Slashes(trail)
    ELSE JoinSegs(segs, sep) \o Slashes(trail)

RawPaths ==
    {RawPath(segs, sep, trail) : segs \in TestPaths, sep \in 1..MaxSlashRun, trail \in 0..MaxSlashRun}

Methods == {"GET", "POST", "PUT"}
Schemes == {"http", "https"}
Queries == {<<>>, <<"q", "=", "1">>}
S_host == <<"h", ".", "x">>

\* the headers an opaque handler's response carries when it reaches the
\* injector.  No handler of main.rs sets one of the four security headers;
\* the second element is the case spec 4.4 rules on ("must not be overridden
\* by downstream handlers"): a downstream response that already has one of
\* the names, with another value
OwnHeaders == {NoHeaders, [NoHeaders EXCEPT !["X-Frame-Options"] = "SAMEORIGIN"]}

Requests ==
    {NewRequest(m, sch, S_host, Uri(p, q), own) :
        m \in Methods, sch \in Schemes, p \in RawPaths, q \in Queries, own \in OwnHeaders}

\* the requests of the runs with several tasks in flight
ConcRequests ==
    { NewRequest("GET", "http", S_host, Uri(RawPath(<<W_r, W_aww>>, 2, 0), <<>>), NoHeaders),
      NewRequest("GET", "https", S_host, Uri(RawPath(<<W_abcde>>, 1, 1), <<"q", "=", "1">>), NoHeaders),
      NewRequest("POST", "http", S_host, Uri(RawPath(<<W_settings>>, 1, 1), <<>>), NoHeaders),
      NewRequest("GET", "https", S_host, Uri(RawPath(<<W_abcdefg>>, 1, 0), <<>>), NoHeaders) }

S_prog == <<"l", "i", "b", "r", "e", "d", "d", "i", "t">>
G_address_v == <<"-", "-", "a", "d", "d", "r", "e", "s", "s", "=", "h", ":", "1">>
G_a_v == <<"-", "a", "=", "h", ":", "2">>
G_redirect == <<"-", "-", "r", "e", "d", "i", "r", "e", "c", "t", "-", "h", "t", "t", "p", "s">>
G_r == <<"-", "r">>
G_r_v == <<"-", "r", "=", "1">>
G_verbose == <<"-", "-", "v", "e", "r", "b", "o", "s", "e">>
G_a_bare == <<"-", "a">>
G_address_bare == <<"-", "-", "a", "d", "d", "r", "e", "s", "s">>
G_address_eq == <<"-", "-", "a", "d", "d", "r", "e", "s", "s", "=", "a", "=", "b">>
G_addr_v == <<"-", "-", "a", "d", "d", "r", "=", "x">>
G_address_empty == <<"-", "-", "a", "d", "d", "r", "e", "s", "s", "=">>
G_a_plus == <<"-", "a", "=", "h", ":", "+", "0", "3">>

ArgPool ==
    {G_address_v, G_a_v, G_redirect, G_r, G_r_v, G_verbose, G_a_bare, G_address_bare,
     G_address_eq, G_addr_v, G_address_empty, G_a_plus}

\* argv[0] and up to MaxArgs arguments
CmdLines == {<<S_prog>> \o a : a \in UNION {[1..k -> ArgPool] : k \in 0..MaxArgs}}

(***************************************************************************)
(* Specifications                                                          *)
(***************************************************************************)
NoRequests == [i \in Slots |-> Idle]

\* start-up: main() from its first line to the server running
InitArgs ==
    /\ cmdline \in CmdLines
    /\ argi = 1
    /\ address = S_default_address
    /\ force_https = FALSE
    /\ pc = "args"
    /\ reqs = NoRequests

NextArgs == ParseArg \/ StartServer \/ BindFails

SpecArgs == InitArgs /\ [][NextArgs]_vars

\* the server running, started with or without --redirect-https
Serving(force) ==
    /\ cmdline = IF force THEN <<S_prog, G_redirect>> ELSE <<S_prog>>
    /\ argi = Len(cmdline) + 1
    /\ address = S_default_address
    /\ force_https = force
    /\ pc = "serving"

\* one request arrives
Init ==
    /\ \E force \in BOOLEAN : Serving(force)
    /\ reqs \in {[i \in Slots |-> IF i = 1 THEN r ELSE Idle] : r \in Requests}

\* every task has a request
InitConc ==
    /\ \E force \in BOOLEAN : Serving(force)
    /\ reqs \in [Slots -> ConcRequests]

Next ==
    \E i \in Slots :
        \/ NormalizePathCall(i)
        \/ WrapFnCall(i)
        \/ SrvCall(i)
        \/ HandlerReturn(i)
        \/ WrapFnMap(i)
        \/ DefaultHeadersMap(i)
        \/ Abandon(i)

Spec == Init /\ [][Next]_vars

SpecConc == InitConc /\ [][Next]_vars

(***************************************************************************)
(* Notions the properties are stated with                                  *)
(***************************************************************************)
Routed(i) == reqs[i].stage \in {"invoked", "served", "mapped", "done"}
Served(i) == reqs[i].stage \in {"served", "mapped", "done"}
Done(i) == reqs[i].stage = "done"

NonEmpty(x) == x # <<>>

\* the segments of a path: what stands between its slashes
Segments(path) == SelectSeq(Split(path, "/"), NonEmpty)

\* the path that has exactly one '/' before each segment and one at the end
Canon(path) == JoinSegs(Segments(path), 1) \o <<"/">>

\* the indices of the registered routes whose method is the request's and
\* whose whole pattern matches the path
FlatMatches(method, path) ==
    {k \in 1..Len(FlatRoutes) :
        /\ FlatRoutes[k].method = method
        /\ MatchResource(FlatRoutes[k].pat, path, 1).ok}

\* the configuration the argument list stands for: the text before the
\* first '=' names the argument, the text after it is its value
FirstEq(arg) == Min({k \in 1..Len(arg) : arg[k] = "="})
HasEq(arg) == \E k \in 1..Len(arg) : arg[k] = "="
NameOf(arg) == IF HasEq(arg) THEN SubSeq(arg, 1, FirstEq(arg) - 1) ELSE arg
ValueOf(arg) == IF HasEq(arg) THEN SubSeq(arg, FirstEq(arg) + 1, Len(arg)) ELSE <<>>
AddressArgs(cmd) == {k \in 1..Len(cmd) : NameOf(cmd[k]) \in {S_address, S_a}}
ClaimedAddress(cmd) ==
    IF AddressArgs(cmd) = {} THEN S_default_address ELSE ValueOf(cmd[Max(AddressArgs(cmd))])
ClaimedForce(cmd) ==
    \E k \in 1..Len(cmd) : NameOf(cmd[k]) \in {S_redirect_https, S_r_flag}

(***************************************************************************)
(* C1                                                                      *)
(***************************************************************************)
\* C1: with force_https set, a request over an insecure scheme never has a
\* downstream handler (route handler or default service) invoked, at any
\* point of its processing, and its response is a 302 whose Location is
\* https://<host><path and query>.
C1_RedirectWithoutHandler ==
    \A i \in Slots :
        (reqs[i].stage # "idle" /\ force_https /\ reqs[i].scheme # "https") =>
            /\ reqs[i].invoked = NotInvoked
            /\ Done(i) =>
                /\ reqs[i].out.status = 302
                /\ reqs[i].out.location =
                      S_https_prefix \o reqs[i].host
                        \o UriToString(Uri(Canon(reqs[i].raw.path), reqs[i].raw.query))

(***************************************************************************)
(* C2                                                                      *)
(***************************************************************************)
\* C2: every response that leaves the server carries the four security
\* headers with exactly the fixed values, for every status and origin
\* (handler, static asset, default service, scheme redirect), also when the
\* downstream handler's own response already set one of the names: the
\* handler's value does not replace the fixed one.
C2_FixedHeadersAlways ==
    \A i \in Slots :
        Done(i) => \A h \in SecurityHeaderNames : reqs[i].out.headers[h] = SecurityHeaders[h]

(***************************************************************************)
(* C3                                                                      *)
(***************************************************************************)
SubSorts == {A_hot, A_new, A_top, A_rising, A_controversial}

\* the last segments the other GET routes registered under /r/{sub} accept
OtherSubRoutes == {W_search, A_wiki, A_w}

\* the path is /r/<sub>/<x>/
IsSubX(path) == Len(Segments(path)) = 3 /\ Segments(path)[1] = W_r /\ path = Canon(path)

\* C3: a GET of /r/<sub>/<x>/ invokes the subreddit page handler of line 124
\* with sub = <sub> and sort = <x> when x is one of hot, new, top, rising,
\* controversial; when x is none of them and matches no other route
\* registered under /r/{sub}, the sort route's handler is not invoked and
\* the default service produces the inner response.  (A wrap_fn redirect may
\* still replace that response afterwards; the property is about routing.)
C3_SortRoute ==
    \A i \in Slots :
        (Routed(i) /\ reqs[i].method = "GET" /\ IsSubX(reqs[i].routed)) =>
            LET sub == Segments(reqs[i].routed)[2]
                x == Segments(reqs[i].routed)[3]
            IN  /\ x \in SubSorts =>
                    reqs[i].invoked =
                        Invocation("subreddit::page", 124, << <<"sub", sub>>, <<"sort", x>> >>)
                /\ x \notin SubSorts \cup OtherSubRoutes =>
                    /\ reqs[i].invoked.handler = "utils::error"
                    /\ reqs[i].invoked.line = 97
                    /\ Served(i) => reqs[i].inner = ErrorResponse

C3_Witness ==
    \E i \in Slots :
        /\ Routed(i) /\ reqs[i].method = "GET"
        /\ reqs[i].routed = Canon(RawPath(<<W_r, W_aww, W_invalidsort>>, 1, 1))
        /\ reqs[i].invoked.handler = "utils::error"

(***************************************************************************)
(* C4                                                                      *)
(***************************************************************************)
FrontSorts == {A_best, A_hot, A_new, A_top, A_rising, A_controversial}

StaticPaths ==
    [h \in StaticHandlers |->
        CASE h = "style" -> S_style
          [] h = "favicon" -> S_favicon
          [] h = "robots" -> S_robots
          [] h = "manifest" -> S_manifest
          [] h = "pwa_logo" -> S_logo
          [] h = "iphone_logo" -> S_touch]

\* C4: when several registered routes match the method and normalized path,
\* the earliest registered one is invoked.  In particular /search/ goes to
\* the search handler of line 152 and /best/, /hot/, /new/, /top/, /rising/,
\* /controversial/ to the front page handler of line 144, never to the short
\* link handler of line 154; the six static asset paths and /proxy/<...>/ go
\* to their own handlers.
C4_RegistrationOrder ==
    \A i \in Slots :
        Routed(i) =>
            LET path == reqs[i].routed
                M == FlatMatches(reqs[i].method, path)
            IN  /\ Cardinality(M) >= 2 =>
                    /\ reqs[i].invoked.line = FlatRoutes[Min(M)].line
                    /\ reqs[i].invoked.handler = FlatRoutes[Min(M)].handler
                /\ reqs[i].method = "GET" =>
                    /\ path = S_search => reqs[i].invoked.line = 152
                    /\ (\E x \in FrontSorts : path = S_slash \o x \o S_slash) =>
                            /\ reqs[i].invoked.line = 144
                            /\ reqs[i].invoked.handler = "subreddit::page"
                    /\ \A h \in StaticHandlers :
                            path = StaticPaths[h] => reqs[i].invoked.handler = h
                    /\ (IsPrefixAt(path, 1, S_proxy) /\ Len(Segments(path)) >= 2) =>
                            reqs[i].invoked.line = 106

\* /rising/ matches the front page route and the short link route
C4_Witness ==
    \E i \in Slots :
        /\ Routed(i) /\ reqs[i].method = "GET"
        /\ reqs[i].routed = S_slash \o A_rising \o S_slash
        /\ Cardinality(FlatMatches("GET", reqs[i].routed)) >= 2
        /\ reqs[i].invoked.line = 144

(***************************************************************************)
(* C5                                                                      *)
(***************************************************************************)
HasDoubleSlash(p) == \E k \in 1..(Len(p) - 1) : p[k] = "/" /\ p[k + 1] = "/"

\* C5: the normalized path has every run of '/' collapsed to one and ends
\* with exactly one '/', keeps the segments and the query of the raw path,
\* and normalizing it again changes nothing; the router is given the
\* normalized path, so raw paths with the same normalized form reach the
\* same handler with the same captures; and the configuration is what
\* start-up left.
C5_Normalization ==
    \A i \in Slots :
        /\ reqs[i].stage \notin {"idle", "received"} =>
            LET n == reqs[i].uri.path
            IN  /\ ~HasDoubleSlash(n)
                /\ Len(n) >= 1 /\ n[Len(n)] = "/"
                /\ Segments(n) = Segments(reqs[i].raw.path)
                /\ n = Canon(reqs[i].raw.path)
                /\ NormalizedPath(n) = n
                /\ reqs[i].uri.query = reqs[i].raw.query
                /\ address = ClaimedAddress(cmdline)
                /\ force_https = ClaimedForce(cmdline)
        /\ Routed(i) =>
            /\ reqs[i].routed = Canon(reqs[i].raw.path)
            /\ reqs[i].invoked = Dispatch(reqs[i].method, Canon(reqs[i].raw.path))

\* //r//aww (doubled slashes, none at the end) was routed as /r/aww/
C5_Witness ==
    \E i \in Slots :
        /\ Routed(i)
        /\ reqs[i].raw.path = RawPath(<<W_r, W_aww>>, 2, 0)
        /\ reqs[i].routed = S_r \o W_aww \o S_slash
        /\ reqs[i].invoked.line = 123

(***************************************************************************)
(* C6                                                                      *)
(***************************************************************************)
Mapped(i) == reqs[i].stage \in {"mapped", "done"}

\* C6: the response of the wrap_fn is the scheme redirect only if
\* force_https is set and the request's scheme is not https; otherwise
\* (force_https unset, or scheme https) it is exactly the response of the
\* inner service.
C6_RedirectOnlyWhenForced ==
    \A i \in Slots :
        Mapped(i) =>
            /\ reqs[i].mapped.by = "wrap_fn" => (force_https /\ reqs[i].scheme # "https")
            /\ ~force_https => reqs[i].mapped = reqs[i].inner
            /\ (force_https /\ reqs[i].scheme = "https") => reqs[i].mapped = reqs[i].inner
            /\ Done(i) /\ reqs[i].mapped = reqs[i].inner =>
                    /\ reqs[i].out.status = reqs[i].inner.status
                    /\ reqs[i].out.body = reqs[i].inner.body
                    /\ reqs[i].out.location = <<>>

\* an insecure request passed through with force_https unset
C6_Witness ==
    \E i \in Slots :
        /\ Done(i) /\ ~force_https /\ reqs[i].scheme = "http"
        /\ reqs[i].out.by = "handler"
        /\ reqs[i].out.status = 200

(***************************************************************************)
(* C7                                                                      *)
(***************************************************************************)
\* C7: whenever no registered route matches the request's method and
\* normalized path, the default service produces the response (the
\* "Nothing here" page, a non-success status) and no content handler runs.
C7_DefaultWhenNoRoute ==
    \A i \in Slots :
        (Routed(i) /\ FlatMatches(reqs[i].method, reqs[i].routed) = {}) =>
            /\ reqs[i].invoked.handler = "utils::error"
            /\ Served(i) => reqs[i].inner = ErrorResponse

(***************************************************************************)
(* C8                                                                      *)
(***************************************************************************)
\* C8: for every argument list the loop over the arguments completes (it
\* does not panic), and the configuration it leaves for bind() has the
\* address of the last --address=<v> / -a=<v> (else 0.0.0.0:8080) and force_https exactly when an argument is named
\* --redirect-https or -r; other arguments change nothing.
C8_ParsingCompletes ==
    /\ pc # "panicked"
    /\ argi > Len(cmdline) =>
        /\ address = ClaimedAddress(cmdline)
        /\ force_https = ClaimedForce(cmdline)

(***************************************************************************)
(* C9                                                                      *)
(***************************************************************************)
\* the order the stages are claimed to run in: path normalizer, scheme
\* enforcement (the scheme is read, and the redirect decided and built),
\* route lookup, the handler or default service, header injector
StageOrder ==
    <<"NormalizePath", "SchemeCheck", "SchemeMap", "Route", "Handler", "DefaultHeaders">>

StagePos(label) == CHOOSE k \in 1..Len(StageOrder) : StageOrder[k] = label

\* the stages of the trace ran in the claimed order (stages may be absent,
\* as the route lookup is for a request the enforcement short-circuits)
InStageOrder(trace) ==
    \A a, b \in 1..Len(trace) : a < b => StagePos(trace[a]) < StagePos(trace[b])

\* C9: for every request the stages run in the order path normalizer,
\* scheme enforcement, route lookup and handler (or default service), and
\* the header injector last on the outgoing response; so the redirect
\* target is built from the normalized path and the router is given the
\* normalized path.
C9_StageOrder ==
    \A i \in Slots :
        reqs[i].stage # "idle" =>
            /\ InStageOrder(reqs[i].trace)
            /\ reqs[i].stage \notin {"received", "normalized"} =>
                    reqs[i].https_url =
                        S_https_prefix \o reqs[i].host
                          \o UriToString(Uri(Canon(reqs[i].raw.path), reqs[i].raw.query))
            /\ Routed(i) => reqs[i].routed = Canon(reqs[i].raw.path)
            /\ Done(i) =>
                /\ reqs[i].trace[Len(reqs[i].trace)] = "DefaultHeaders"
                /\ reqs[i].mapped.by = "wrap_fn" => reqs[i].out.location = reqs[i].https_url

(***************************************************************************)
(* C10                                                                     *)
(***************************************************************************)
\* C10: no step of processing any request, under any interleaving, changes
\* the bind address, force_https or the arguments they came from (the route
\* table is a constant of the program); and the response of every request
\* is the one that request gets on its own under the start-up
\* configuration, whatever the other tasks did or whether they were dropped.
C10_ReadOnlyConfig ==
    /\ [][pc = "serving" =>
            /\ address' = address
            /\ force_https' = force_https
            /\ cmdline' = cmdline
            /\ pc' = pc]_vars
    /\ [](\A i \in Slots :
            /\ Done(i) => reqs[i].out = Handle(reqs[i], ClaimedForce(cmdline))
            /\ reqs[i].stage = "idle" => reqs[i] = Idle)

\* with redirecting on, one task was redirected, another served, and both
\* are complete
C10_Witness ==
    \E i, j \in Slots :
        /\ i # j
        /\ Done(i) /\ Done(j)
        /\ force_https
        /\ reqs[i].out.status = 302
        /\ reqs[j].out.status = 200

====
